---- MODULE Spec2Model ----
(***************************************************************************)
(* Model of the link-relay bot of src/main.py: the in-memory link table    *)
(* link_messages, its mirror file data.json, the wall clock, and one       *)
(* action per update handler (start, handle_admin_message, list_links,     *)
(* delete_link, cleanup_command, stop_bot).  Handlers run one at a time    *)
(* (the dispatcher awaits each handler), so a handler is one atomic step.  *)
(* Times are minutes.  Texts are sequences of characters.                  *)
(*                                                                         *)
(* Three specifications share the definitions:                             *)
(*   Spec         the handlers on the table and the file, all inputs; the  *)
(*                chat and the retraction tasks are not followed (they     *)
(*                never touch the table, which SpecRetract checks);        *)
(*   SpecRetract  the handlers together with the messages delivered to the *)
(*                chat and the delete_messages tasks start schedules;      *)
(*                SpecRetractFair adds the scheduling of the event loop;   *)
(*   SpecRun      the retry loop of run_bot around run_polling.            *)
(***************************************************************************)
EXTENDS Integers, Sequences, FiniteSets, TLC

VARIABLES link_messages, file, now, running, writeFailures, last,
          chat, tasks, retry_count, attempts, pc

\* the chat side: the deliveries of stored texts, the pending delete_messages tasks
chatVars == <<chat, tasks>>
\* run_bot: its local retry_count, the attempts it has started, its position
runVars == <<retry_count, attempts, pc>>

vars == <<link_messages, file, now, running, writeFailures, last,
          chat, tasks, retry_count, attempts, pc>>

----------------------------------------------------------------------------
(* Bounds of the model *)

\* the clock runs from 0 to MaxTime minutes
MaxTime == 60
\* writes of data.json that fail in one run of the process
MaxWriteFailures == 1
\* deliveries of a stored text followed in the chat
MaxDeliveries == 1

----------------------------------------------------------------------------
(* Program constants *)

\* timedelta(minutes=30)
TTL == 30
\* ADMIN_ID, any non-zero id (run_bot refuses 0)
ADMIN_ID == 1
\* max_retries of run_bot
max_retries == 3

\* resolution at which the model observes the clock, chosen so that ages of
\* exactly TTL and of more than TTL both occur
ClockStep == TTL

Users == {ADMIN_ID, ADMIN_ID + 1}
\* values of str(uuid.uuid4())[:8]
Codes == {"c1", "c2"}
NoCode == ""

\* update.message.text of the text messages the actors send
RawTexts == {<<" ">>, <<"a">>, <<" ", "a">>, <<"b", " ">>}

----------------------------------------------------------------------------
(* str.strip() *)

IsSpace(ch) == ch = " "

RECURSIVE LStrip(_)
LStrip(s) ==
  IF s = <<>> THEN s
  ELSE IF IsSpace(Head(s)) THEN LStrip(Tail(s)) ELSE s

RECURSIVE RStrip(_)
RStrip(s) ==
  IF s = <<>> THEN s
  ELSE IF IsSpace(s[Len(s)]) THEN RStrip(SubSeq(s, 1, Len(s) - 1)) ELSE s

StripNothing(s) == s

Strip(s) == RStrip(LStrip(s))

\* texts a record can hold
Texts == {Strip(s) : s \in RawTexts} \ {<<>>}

\* the text of the old-format records found in data.json
LegacyTexts == {<<"a">>}

----------------------------------------------------------------------------
(* datetime.isoformat() / datetime.fromisoformat(), on minutes: "HH:MM" *)

IsoFormat(t) == <<t \div 60, t % 60>>

FromIsoFormat(s) == s[1] * 60 + s[2]

----------------------------------------------------------------------------
(* Link records: the new format (dict) and the old format (bare string) *)

DictRecord(m, t) == [kind |-> "dict", message |-> m, created_at |-> IsoFormat(t)]

StrRecord(m) == [kind |-> "str", message |-> m]

IsDict(data) == data.kind = "dict"

IsStr(data) == data.kind = "str"

CreatedAt(data) == FromIsoFormat(data.created_at)

DelKeeps(d, ks) == d

\* del d[k]
Del(d, ks) == [c \in DOMAIN d \ ks |-> d[c]]

PutIfAbsent(d, k, v) == [c \in DOMAIN d \cup {k} |-> IF c \in DOMAIN d THEN d[c] ELSE v]

\* d[k] = v
Put(d, k, v) == [c \in DOMAIN d \cup {k} |-> IF c = k THEN v ELSE d[c]]

EmptyTable == [c \in {} |-> StrRecord(<<>>)]

----------------------------------------------------------------------------
(* data.json *)

FileOk(data) == [status |-> "ok", data |-> data]

FileMissing == [status |-> "missing", data |-> EmptyTable]

\* a file a failed write left truncated
FileCorrupt == [status |-> "corrupt", data |-> EmptyTable]

\* outcome of one write of the file: it succeeds, open() fails (file kept),
\* or json.dump fails after open() truncated the file
SaveOutcomes == {"ok", "open_failed", "dump_failed"}

load_data(f) == IF f.status = "ok" THEN f.data ELSE EmptyTable

save_data_raising(table, f, outcome) ==
  [file   |-> IF outcome = "ok" THEN FileOk(table)
              ELSE IF outcome = "open_failed" THEN f ELSE FileCorrupt,
   failed |-> outcome # "ok",
   raised |-> outcome # "ok"]

\* save_data: the file after the write, whether the write failed, and
\* whether an exception leaves save_data (never: it is logged)
save_data(table, f, outcome) ==
  [file   |-> IF outcome = "ok" THEN FileOk(table)
              ELSE IF outcome = "open_failed" THEN f ELSE FileCorrupt,
   failed |-> outcome # "ok",
   raised |-> FALSE]

ExpiredLegacyToo(data, t) == IsStr(data) \/ t - CreatedAt(data) > TTL

\* the test of cleanup_expired_links: only a dict with created_at expires
Expired(data, t) == IsDict(data) /\ t - CreatedAt(data) > TTL

ExpiredCodes(table, t) == {c \in DOMAIN table : Expired(table[c], t)}

SweepResultUnsaved(table, f, expired, outcome) ==
  [table |-> Del(table, expired), file |-> f, removed |-> expired, writes |-> 0,
   failed |-> FALSE, raised |-> FALSE]

\* cleanup_expired_links once the expired codes are known: delete them, and
\* save once if there are any
SweepResult(table, f, expired, outcome) ==
  LET kept == Del(table, expired)
      sv   == save_data(kept, f, outcome)
  IN IF expired = {}
     THEN [table |-> table, file |-> f, removed |-> {}, writes |-> 0,
           failed |-> FALSE, raised |-> FALSE]
     ELSE [table |-> kept, file |-> sv.file, removed |-> expired, writes |-> 1,
           failed |-> sv.failed, raised |-> sv.raised]

cleanup_first_only(table, f, t, outcome) ==
  LET expired == ExpiredCodes(table, t)
  IN SweepResult(table, f,
                 IF expired = {} THEN {}
                 ELSE {CHOOSE c \in expired : TRUE}, outcome)

cleanup_nothing(table, f, t, outcome) == SweepResult(table, f, {}, outcome)

\* cleanup_expired_links at clock reading t
cleanup_expired_links(table, f, t, outcome) ==
  SweepResult(table, f, ExpiredCodes(table, t), outcome)

----------------------------------------------------------------------------
(* Replies *)

Msg(tag) == [tag |-> tag, text |-> <<>>, code |-> NoCode, n |-> 0]

TextMsg(m) == [tag |-> "TEXT", text |-> m, code |-> NoCode, n |-> 0]

LinkMsg(code) == [tag |-> "LINK", text |-> <<>>, code |-> code, n |-> 0]

DeletedMsg(code) == [tag |-> "DELETED", text |-> <<>>, code |-> code, n |-> 0]

CleanupMsg(n) == [tag |-> "CLEANUP_DONE", text |-> <<>>, code |-> NoCode, n |-> n]

ListMsg(table) == [tag |-> "LIST", text |-> <<>>, code |-> NoCode, n |-> Cardinality(DOMAIN table)]

Attempt(m, ok) == [msg |-> m, sent |-> ok]

\* The reply_text calls of one handler run.  out: the messages the try body
\* sends, in order; failAt: which of them raises (0: none); hasErr/errMsg: the
\* reply of the except clause; errFails: that reply raises too.
Replies(out, failAt, hasErr, errMsg, errFails) ==
  IF failAt = 0 THEN [i \in 1..Len(out) |-> Attempt(out[i], TRUE)]
  ELSE [i \in 1..failAt |-> Attempt(out[i], i < failAt)]
       \o (IF hasErr THEN <<Attempt(errMsg, ~errFails)>> ELSE <<>>)

\* an exception leaves the handler
Escaped(failAt, hasErr, errFails) == failAt > 0 /\ hasErr /\ errFails

\* what the handler run that just ended did; op = "idle": none has.
\* hit: the code it names was in the table after its sweep.
IdleLast ==
  [op |-> "idle", user |-> 0, code |-> NoCode, raw |-> <<>>, t1 |-> 0,
   replies |-> <<>>, removed |-> {}, swrites |-> 0, writes |-> 0, failed |-> 0,
   escaped |-> FALSE, hit |-> FALSE]

----------------------------------------------------------------------------
(* Initial states: the process has started and load_data() has run *)

\* tables an earlier run of the program can have left in data.json
InitTables ==
  {EmptyTable}
  \cup {[c \in {k} |-> StrRecord(m)] : k \in Codes, m \in LegacyTexts}
  \cup {[c \in {k} |-> DictRecord(m, 0)] : k \in Codes, m \in Texts}

InitFiles == {FileOk(t) : t \in InitTables} \cup {FileMissing, FileCorrupt}

\* the table side of the process once load_data() has run
InitTable(files) ==
  /\ file \in files
  /\ link_messages = load_data(file)
  /\ now = 0
  /\ writeFailures = 0
  /\ last = IdleLast

\* nothing delivered, no task scheduled
InitChat ==
  /\ chat = <<>>
  /\ tasks = {}

\* the first attempt of run_bot has reached run_polling
Init ==
  /\ InitTable(InitFiles)
  /\ InitChat
  /\ running = TRUE
  /\ retry_count = 0
  /\ attempts = 1
  /\ pc = "polling"

----------------------------------------------------------------------------
(* The dispatcher and the clock *)

\* the application runs and no handler is running: the dispatcher awaits
\* each handler before it takes the next update
Ready == running /\ last.op = "idle"

\* the handler returns to the dispatcher
HandlerReturns ==
  /\ last.op # "idle"
  /\ last' = IdleLast
  /\ UNCHANGED <<link_messages, file, now, running, writeFailures>>
  /\ UNCHANGED <<chatVars, runVars>>

Tick ==
  /\ Ready
  /\ now + ClockStep <= MaxTime
  /\ now' = now + ClockStep
  /\ last' = IdleLast
  /\ UNCHANGED <<link_messages, file, running, writeFailures>>
  /\ UNCHANGED <<chatVars, runVars>>

\* time that passes between two clock readings of one handler
Delays == {d \in {0, ClockStep} : now + d <= MaxTime}


----------------------------------------------------------------------------
(* Handlers *)

IsAdminAnyone(user) == TRUE

\* user_id == ADMIN_ID
IsAdmin(user) == user = ADMIN_ID

\* outcomes the next write of data.json can have, after `failed` failed
\* writes of the same handler run
WriteChoices(failed) ==
  IF writeFailures + failed < MaxWriteFailures THEN SaveOutcomes ELSE {"ok"}

\* the faults of the reply_text calls of one handler run, as <<failAt, errFails>>;
\* raised: the try body raised before its first reply_text
TransportFaults(raised, out, hasErr) ==
  IF raised THEN {<<0, b>> : b \in (IF hasErr THEN BOOLEAN ELSE {FALSE})}
  ELSE {<<0, FALSE>>}
       \cup {<<i, b>> : i \in 1..Len(out), b \in (IF hasErr THEN BOOLEAN ELSE {FALSE})}

\* the replies of a handler run whose try body raised before its first
\* reply_text (raised), or else sends out
HandlerReplies(raised, out, fault, hasErr, errMsg) ==
  IF raised
  THEN (IF hasErr THEN <<Attempt(errMsg, ~fault[2])>> ELSE <<>>)
  ELSE Replies(out, fault[1], hasErr, errMsg, fault[2])

HandlerEscaped(raised, fault, hasErr) ==
  IF raised THEN hasErr /\ fault[2] ELSE Escaped(fault[1], hasErr, fault[2])

B2N(b) == IF b THEN 1 ELSE 0

NoSweep ==
  [table |-> link_messages, file |-> file, removed |-> {}, writes |-> 0,
   failed |-> FALSE, raised |-> FALSE]

\* the state a handler run leaves; the locals of run_bot are out of its reach
Finish(op, user, code, raw, t2, table, f, up, replies, sw, writes, failed, escaped) ==
  /\ link_messages' = table
  /\ file' = f
  /\ now' = t2
  /\ running' = up
  /\ writeFailures' = writeFailures + failed
  /\ last' = [op |-> op, user |-> user, code |-> code, raw |-> raw, t1 |-> now,
              replies |-> replies, removed |-> sw.removed, swrites |-> sw.writes,
              writes |-> writes, failed |-> failed, escaped |-> escaped,
              hit |-> code \in DOMAIN Del(link_messages, sw.removed)]
  /\ UNCHANGED runVars

start_lookup_no_expiry_check(table, code, t2) ==
  IF code \notin DOMAIN table THEN <<Msg("NOT_FOUND")>>
  ELSE <<TextMsg(table[code].message), Msg("WARNING")>>

start_lookup_truncating(table, code, t2) ==
  IF code \notin DOMAIN table THEN <<Msg("NOT_FOUND")>>
  ELSE LET data == table[code]
       IN IF IsDict(data) /\ t2 - CreatedAt(data) > TTL
          THEN <<Msg("EXPIRED")>>
          ELSE <<TextMsg(SubSeq(data.message, 1, Len(data.message) - 1)), Msg("WARNING")>>

\* start, after the sweep: the lookup of code at clock reading t2 and the
\* messages it sends
start_lookup(table, code, t2) ==
  IF code \notin DOMAIN table THEN <<Msg("NOT_FOUND")>>
  ELSE LET data == table[code]
       IN IF IsStr(data) THEN <<TextMsg(data.message), Msg("WARNING")>>
          ELSE IF t2 - CreatedAt(data) > TTL THEN <<Msg("EXPIRED")>>
          ELSE <<TextMsg(data.message), Msg("WARNING")>>

\* the second clock reading of start happens only for a dict record
ReadsClockTwice(table, code) == code \in DOMAIN table /\ IsDict(table[code])

\* /start without arguments
StartWelcome(user) ==
  LET out == <<Msg(IF IsAdmin(user) THEN "WELCOME_ADMIN" ELSE "WELCOME")>>
  IN /\ Ready
     /\ \E fault \in TransportFaults(FALSE, out, TRUE) :
          Finish("start", user, NoCode, <<>>, now, link_messages, file, TRUE,
                 HandlerReplies(FALSE, out, fault, TRUE, Msg("START_ERROR")),
                 NoSweep, 0, 0, HandlerEscaped(FALSE, fault, TRUE))

start_with_code_one_time(table, f, code, t1, t2, outcome) ==
  LET sw  == cleanup_expired_links(table, f, t1, outcome)
      out == start_lookup(sw.table, code, t2)
  IN [sw |-> sw, out |-> out,
      table |-> IF out[1].tag = "TEXT" THEN Del(sw.table, {code}) ELSE sw.table]

\* start with an argument: the sweep at clock reading t1, the lookup at
\* clock reading t2, the messages to send and the table it leaves
start_with_code(table, f, code, t1, t2, outcome) ==
  LET sw == cleanup_expired_links(table, f, t1, outcome)
  IN [sw |-> sw, out |-> start_lookup(sw.table, code, t2), table |-> sw.table]

\* /start <code>
Redeem(user, code) ==
  /\ Ready
  /\ \E outcome \in WriteChoices(0) :
       LET sw == cleanup_expired_links(link_messages, file, now, outcome)
       IN /\ sw.writes = 0 => outcome = "ok"
          /\ \E d \in (IF ~sw.raised /\ ReadsClockTwice(sw.table, code) THEN Delays ELSE {0}) :
               LET r == start_with_code(link_messages, file, code, now, now + d, outcome)
               IN \E fault \in TransportFaults(r.sw.raised, r.out, TRUE) :
                    Finish("redeem", user, code, <<>>, now + d, r.table, r.sw.file, TRUE,
                           HandlerReplies(r.sw.raised, r.out, fault, TRUE, Msg("START_ERROR")),
                           r.sw, r.sw.writes, B2N(r.sw.failed),
                           HandlerEscaped(r.sw.raised, fault, TRUE))

new_record_unstripped(raw, t2) == DictRecord(raw, t2)

\* the record handle_admin_message stores for the message text raw at clock
\* reading t2
new_record(raw, t2) == DictRecord(Strip(raw), t2)

\* a free-text message from a user who is not the admin, or a blank one
TextRejected(user, raw) ==
  LET out == IF ~IsAdmin(user) THEN <<Msg("UNAUTHORIZED")>> ELSE <<Msg("EMPTY_INPUT")>>
  IN /\ Ready
     /\ ~IsAdmin(user) \/ Strip(raw) = <<>>
     /\ \E fault \in TransportFaults(FALSE, out, TRUE) :
          Finish("text", user, NoCode, raw, now, link_messages, file, TRUE,
                 HandlerReplies(FALSE, out, fault, TRUE, Msg("CREATE_ERROR")),
                 NoSweep, 0, 0, HandlerEscaped(FALSE, fault, TRUE))

\* a free-text message from the admin: a link is created under code, the
\* value of uuid4
Create(user, raw, code) ==
  /\ Ready
  /\ IsAdmin(user) /\ Strip(raw) # <<>>
  /\ \E o1 \in WriteChoices(0) :
       LET sw == cleanup_expired_links(link_messages, file, now, o1)
       IN /\ sw.writes = 0 => o1 = "ok"
          /\ \E d \in (IF sw.raised THEN {0} ELSE Delays),
                o2 \in (IF sw.raised THEN {"ok"} ELSE WriteChoices(B2N(sw.failed))),
                getMeFails \in BOOLEAN :
               LET table2 == Put(sw.table, code, new_record(raw, now + d))
                   sv     == save_data(table2, sw.file, o2)
                   raised == sw.raised \/ sv.raised
                   out    == IF getMeFails THEN <<Msg("BOT_INFO_ERROR")>>
                             ELSE <<LinkMsg(code)>>
               IN /\ raised => ~getMeFails
                  /\ \E fault \in TransportFaults(raised, out, TRUE) :
                       Finish("create", user, code, raw, now + d,
                              IF sw.raised THEN sw.table ELSE table2,
                              IF sw.raised THEN sw.file ELSE sv.file, TRUE,
                              HandlerReplies(raised, out, fault, TRUE, Msg("CREATE_ERROR")),
                              sw, sw.writes + B2N(~sw.raised),
                              B2N(sw.failed) + B2N(~sw.raised /\ sv.failed),
                              HandlerEscaped(raised, fault, TRUE))

handle_admin_message(user, raw, code) ==
  \/ TextRejected(user, raw) /\ code = CHOOSE c \in Codes : TRUE
  \/ Create(user, raw, code)

\* the reply of the except clause of the handler of a command
ErrorMsg(op) ==
  Msg(CASE op = "list" -> "LIST_ERROR"
        [] op = "delete" -> "DELETE_ERROR"
        [] op = "cleanup" -> "CLEANUP_ERROR"
        [] OTHER -> "NONE")

\* a privileged command from a user who is not the admin
Denied(op, user) ==
  LET out == <<Msg("UNAUTHORIZED")>>
  IN /\ Ready
     /\ ~IsAdmin(user)
     /\ \E fault \in TransportFaults(FALSE, out, op # "stop") :
          Finish(op, user, NoCode, <<>>, now, link_messages, file, TRUE,
                 HandlerReplies(FALSE, out, fault, op # "stop", ErrorMsg(op)),
                 NoSweep, 0, 0, HandlerEscaped(FALSE, fault, op # "stop"))

\* /list
list_links(user) ==
  \/ Denied("list", user)
  \/ /\ Ready
     /\ IsAdmin(user)
     /\ \E outcome \in WriteChoices(0) :
          LET sw == cleanup_expired_links(link_messages, file, now, outcome)
              listed == ~sw.raised /\ sw.table # EmptyTable
              out == IF sw.table = EmptyTable THEN <<Msg("NO_LINKS")>>
                     ELSE <<ListMsg(sw.table)>>
          IN /\ sw.writes = 0 => outcome = "ok"
             /\ \E getMeFails \in (IF listed THEN BOOLEAN ELSE {FALSE}) :
                  LET raised == sw.raised \/ getMeFails
                  IN \E fault \in TransportFaults(raised, out, TRUE) :
                       Finish("list", user, NoCode, <<>>, now, sw.table, sw.file, TRUE,
                              HandlerReplies(raised, out, fault, TRUE, Msg("LIST_ERROR")),
                              sw, sw.writes, B2N(sw.failed),
                              HandlerEscaped(raised, fault, TRUE))

\* /delete [code]; code = NoCode: no argument
delete_link(user, code) ==
  \/ Denied("delete", user) /\ code = NoCode
  \/ /\ Ready
     /\ IsAdmin(user)
     /\ LET found == code # NoCode /\ code \in DOMAIN link_messages
        IN \E outcome \in (IF found THEN WriteChoices(0) ELSE {"ok"}) :
             LET table2 == Del(link_messages, {code})
                 sv     == save_data(table2, file, outcome)
                 raised == found /\ sv.raised
                 out    == IF code = NoCode THEN <<Msg("USAGE")>>
                           ELSE IF found THEN <<DeletedMsg(code)>>
                           ELSE <<Msg("LINK_NOT_FOUND")>>
             IN \E fault \in TransportFaults(raised, out, TRUE) :
                  Finish("delete", user, code, <<>>, now,
                         IF found THEN table2 ELSE link_messages,
                         IF found THEN sv.file ELSE file, TRUE,
                         HandlerReplies(raised, out, fault, TRUE, Msg("DELETE_ERROR")),
                         NoSweep, B2N(found), B2N(found /\ sv.failed),
                         HandlerEscaped(raised, fault, TRUE))

\* /cleanup
cleanup_command(user) ==
  \/ Denied("cleanup", user)
  \/ /\ Ready
     /\ IsAdmin(user)
     /\ \E outcome \in WriteChoices(0) :
          LET sw  == cleanup_expired_links(link_messages, file, now, outcome)
              out == <<CleanupMsg(Cardinality(DOMAIN link_messages)
                                  - Cardinality(DOMAIN sw.table))>>
          IN /\ sw.writes = 0 => outcome = "ok"
             /\ \E fault \in TransportFaults(sw.raised, out, TRUE) :
                  Finish("cleanup", user, NoCode, <<>>, now, sw.table, sw.file, TRUE,
                         HandlerReplies(sw.raised, out, fault, TRUE, Msg("CLEANUP_ERROR")),
                         sw, sw.writes, B2N(sw.failed),
                         HandlerEscaped(sw.raised, fault, TRUE))

\* /stop; stopRaises: application.stop() or shutdown() raises
stop_bot(user) ==
  \/ Denied("stop", user)
  \/ /\ Ready
     /\ IsAdmin(user)
     /\ LET out == <<Msg("SHUTTING_DOWN")>>
        IN \E fault \in TransportFaults(FALSE, out, FALSE) :
             \E stopRaises \in (IF fault[1] = 0 THEN BOOLEAN ELSE {FALSE}) :
                Finish("stop", user, NoCode, <<>>, now, link_messages, file,
                       ~(fault[1] = 0 /\ ~stopRaises),
                       HandlerReplies(FALSE, out, fault, FALSE, Msg("NONE")),
                       NoSweep, 0, 0, FALSE)

Next ==
  \/ Tick
  \/ HandlerReturns
  \/ \E user \in Users : StartWelcome(user) /\ UNCHANGED chatVars
  \/ \E user \in Users, code \in Codes : Redeem(user, code) /\ UNCHANGED chatVars
  \/ \E user \in Users, raw \in RawTexts, code \in Codes :
        handle_admin_message(user, raw, code) /\ UNCHANGED chatVars
  \/ \E user \in Users : list_links(user) /\ UNCHANGED chatVars
  \/ \E user \in Users, code \in Codes \cup {NoCode} :
        delete_link(user, code) /\ UNCHANGED chatVars
  \/ \E user \in Users : cleanup_command(user) /\ UNCHANGED chatVars
  \/ \E user \in Users : stop_bot(user) /\ UNCHANGED chatVars

Spec == Init /\ [][Next]_vars

----------------------------------------------------------------------------
(* The chat and the delete_messages tasks of start *)

\* reply_text returned for the stored text (main_msg) / for the warning (warning_msg)
TextSent(l) ==
  \E i \in 1..Len(l.replies) : l.replies[i].sent /\ l.replies[i].msg.tag = "TEXT"

WarningSent(l) ==
  \E i \in 1..Len(l.replies) : l.replies[i].sent /\ l.replies[i].msg.tag = "WARNING"

\* a delivery of the text stored under code at time t: the two messages in the chat
Delivery(code, t, warned) ==
  [code |-> code, at |-> t, main |-> "shown",
   warning |-> IF warned THEN "shown" ELSE "unsent"]

\* create_task(delete_messages()) is reached when both reply_text calls returned
Scheduled(l) == TextSent(l) /\ WarningSent(l)

\* the task of delivery id: asyncio.sleep(1800) from time t on
Task(id, code, t) == [id |-> id, code |-> code, due |-> t + TTL]

\* what the run of start that just ended leaves in the chat and on the event
\* loop; the deliveries followed are bounded, and so is the clock
Schedule ==
  LET l  == last'
      id == Len(chat) + 1
  IN IF TextSent(l)
     THEN /\ id <= MaxDeliveries
          /\ now' + TTL <= MaxTime
          /\ chat' = Append(chat, Delivery(l.code, now', WarningSent(l)))
          /\ tasks' = IF Scheduled(l) THEN tasks \cup {Task(id, l.code, now')} ELSE tasks
     ELSE UNCHANGED chatVars

\* /start <code>, with what it leaves in the chat
start(user, code) == Redeem(user, code) /\ Schedule

delete_messages_purging(table, f, c, task, mainFails, warningFails) ==
  [table |-> Del(table, {task.code}), file |-> f,
   chat |-> [c EXCEPT ![task.id] = [@ EXCEPT !.main = "deleted", !.warning = "deleted"]]]

\* delete_messages after its sleep: the two delete_message calls of one try
\* block; mainFails: the first raises, which skips the second
delete_messages(table, f, c, task, mainFails, warningFails) ==
  [table |-> table, file |-> f,
   chat |-> [c EXCEPT ![task.id] =
               [@ EXCEPT !.main = IF mainFails THEN "delete_failed" ELSE "deleted",
                         !.warning = IF mainFails THEN @
                                     ELSE IF warningFails THEN "delete_failed"
                                     ELSE "deleted"]]]

\* the event loop resumes a task whose sleep is over, between two handler
\* runs; a process that has stopped runs no task
Retract(task) ==
  /\ Ready
  /\ now >= task.due
  /\ \E mainFails \in BOOLEAN :
       \E warningFails \in (IF mainFails THEN {FALSE} ELSE BOOLEAN) :
          LET r == delete_messages(link_messages, file, chat, task, mainFails, warningFails)
          IN /\ link_messages' = r.table
             /\ file' = r.file
             /\ chat' = r.chat
  /\ tasks' = tasks \ {task}
  /\ UNCHANGED <<now, running, writeFailures, last, runVars>>

RetractSome == \E task \in tasks : Retract(task)

\* inputs of SpecRetract
RetractCodes == {"c1"}
RetractTexts == {<<" ">>, <<"a">>}

RetractFiles ==
  {FileMissing}
  \cup {FileOk([c \in {k} |-> StrRecord(m)]) : k \in RetractCodes, m \in LegacyTexts}
  \cup {FileOk([c \in {k} |-> DictRecord(<<"a">>, 0)]) : k \in RetractCodes}

InitRetract ==
  /\ InitTable(RetractFiles)
  /\ InitChat
  /\ running = TRUE
  /\ retry_count = 0
  /\ attempts = 1
  /\ pc = "polling"

NextRetract ==
  \/ Tick
  \/ HandlerReturns
  \/ \E user \in Users \ {ADMIN_ID}, code \in RetractCodes : start(user, code)
  \/ \E user \in Users, raw \in RetractTexts, code \in RetractCodes :
        handle_admin_message(user, raw, code) /\ UNCHANGED chatVars
  \/ \E user \in Users, code \in RetractCodes \cup {NoCode} :
        delete_link(user, code) /\ UNCHANGED chatVars
  \/ \E user \in Users : cleanup_command(user) /\ UNCHANGED chatVars
  \/ \E user \in Users : stop_bot(user) /\ UNCHANGED chatVars
  \/ RetractSome

SpecRetract == InitRetract /\ [][NextRetract]_vars

\* the clock advances whatever the handlers do; the dispatcher takes the
\* handler's return; the event loop, whose ready queue is first in first
\* out, runs a task that is due however many updates arrive
SpecRetractFair ==
  /\ SpecRetract
  /\ SF_vars(Tick)
  /\ WF_vars(HandlerReturns)
  /\ SF_vars(RetractSome)

----------------------------------------------------------------------------
(* run_bot: the retry loop around run_polling.  The table, a module global, *)
(* and the tasks of the event loop outlive an attempt.  The sleeps of the   *)
(* except clauses (10 s, 5 s) are below the grain of the clock.             *)

\* the except clauses of the loop
Failures == {"Conflict", "NetworkError", "Exception"}

tableVars == <<link_messages, file, now, writeFailures, last>>

\* the while test passes: the application is built and run_polling starts
AttemptStarts ==
  /\ pc = "loop"
  /\ retry_count < max_retries
  /\ pc' = "polling"
  /\ attempts' = attempts + 1
  /\ running' = TRUE
  /\ UNCHANGED <<retry_count, tableVars, chatVars>>

\* the while test fails: run_bot returns
LoopEnds ==
  /\ pc = "loop"
  /\ retry_count >= max_retries
  /\ pc' = "returned"
  /\ UNCHANGED <<retry_count, attempts, running, tableVars, chatVars>>

\* run_polling returns once the application has been stopped: break
PollingReturns ==
  /\ pc = "polling"
  /\ ~running
  /\ last.op = "idle"
  /\ pc' = "returned"
  /\ UNCHANGED <<retry_count, attempts, running, tableVars, chatVars>>

except_conflict_not_counted(kind, rc) ==
  [retry_count |-> IF kind = "Conflict" THEN rc ELSE rc + 1,
   pc |-> IF kind = "Exception" /\ rc + 1 >= max_retries THEN "raised" ELSE "loop"]

\* the except clause for an exception of kind kind with retry_count = rc:
\* the generic clause re-raises when no retry is left
except_clause(kind, rc) ==
  [retry_count |-> rc + 1,
   pc |-> IF kind = "Exception" /\ rc + 1 >= max_retries THEN "raised" ELSE "loop"]

\* the attempt raises, while it builds the application or from run_polling
AttemptFails(kind) ==
  /\ pc = "polling"
  /\ last.op = "idle"
  /\ LET r == except_clause(kind, retry_count)
     IN /\ retry_count' = r.retry_count
        /\ pc' = r.pc
  /\ running' = FALSE
  /\ UNCHANGED <<attempts, tableVars, chatVars>>

\* run_bot has passed its checks of the environment and is at the while
\* test, or has returned at once because BOT_TOKEN is not set
InitRun ==
  /\ InitTable(InitFiles)
  /\ InitChat
  /\ running = FALSE
  /\ retry_count = 0
  /\ attempts = 0
  /\ pc \in {"loop", "returned"}

NextRun ==
  \/ AttemptStarts
  \/ \E kind \in Failures : AttemptFails(kind)
  \/ PollingReturns
  \/ LoopEnds
  \/ Tick
  \/ HandlerReturns
  \/ \E user \in Users : StartWelcome(user) /\ UNCHANGED chatVars
  \/ \E user \in Users : stop_bot(user) /\ UNCHANGED chatVars

SpecRun == InitRun /\ [][NextRun]_vars

----------------------------------------------------------------------------
(* Properties *)

FirstReply(l) == l.replies[1].msg

AttemptsText(l) == \E i \in 1..Len(l.replies) : l.replies[i].msg.tag = "TEXT"

Sent(l, m) == \E i \in 1..Len(l.replies) : l.replies[i] = Attempt(m, TRUE)

\* the handler run was let through the admin check, or needs none
Authorized(l) ==
  \/ l.op \in {"redeem", "create"}
  \/ l.op \in {"list", "delete", "cleanup", "stop"} /\ l.user = ADMIN_ID

\* what /start <code> does in the current state with no time passing
RedeemNow(code, outcome) ==
  start_with_code(link_messages, file, code, now, now, outcome)

\* the admin has just been sent the link of a record made from last.raw
LinkReturned == last.op = "create" /\ Sent(last, LinkMsg(last.code))

\* C1 as stated: right after a create whose code was returned to the admin, a
\* redeem of that code with no time passing delivers exactly the submitted
\* text.
C1_Original ==
  LinkReturned =>
    \A o \in SaveOutcomes : RedeemNow(last.code, o).out[1] = TextMsg(last.raw)

\* C1 amended: right after a create whose code was returned to the admin, a
\* redeem of that code with no time passing delivers the submitted text with
\* its leading and trailing whitespace stripped, followed by the warning.
C1_RedeemAfterCreate ==
  LinkReturned =>
    \A o \in SaveOutcomes :
      RedeemNow(last.code, o).out = <<TextMsg(Strip(last.raw)), Msg("WARNING")>>

C1_Witness ==
  /\ LinkReturned
  /\ last.raw # Strip(last.raw)
  /\ RedeemNow(last.code, "ok").out[1] = TextMsg(Strip(last.raw))

C3_RedeemAfterDelete ==
  (last.op = "delete" /\ last.user = ADMIN_ID /\ FirstReply(last) = DeletedMsg(last.code)) =>
    \A t1 \in now..MaxTime, o \in SaveOutcomes :
      \A t2 \in t1..MaxTime :
        start_with_code(link_messages, file, last.code, t1, t2, o).out = <<Msg("NOT_FOUND")>>

\* a record was deleted while another one stayed in the table
C3_Witness ==
  /\ last.op = "delete" /\ last.user = ADMIN_ID
  /\ Sent(last, DeletedMsg(last.code))
  /\ link_messages # EmptyTable
  /\ RedeemNow(last.code, "ok").out = <<Msg("NOT_FOUND")>>

\* C4: right after a handler ran the sweep, with no time passing, a second
\* run of cleanup_expired_links removes nothing, does not write, and leaves
\* the table and the file as they are.
C4_SweepIdempotent ==
  (last.op \in {"cleanup", "list", "redeem", "create"} /\ Authorized(last) /\ last.t1 = now) =>
    \A o \in SaveOutcomes :
      LET again == cleanup_expired_links(link_messages, file, now, o)
      IN /\ again.removed = {}
         /\ again.writes = 0
         /\ again.table = link_messages
         /\ again.file = file

\* the first run removed two records
C4_Witness ==
  /\ last.op = "cleanup" /\ last.user = ADMIN_ID
  /\ Cardinality(last.removed) = 2
  /\ cleanup_expired_links(link_messages, file, now, "ok").removed = {}

\* C5: a free text, /list, /delete, /cleanup or /stop from a user who is not
\* the admin is answered with the unauthorized message first, and leaves the
\* table, the file and the application as they were.
C5_NonAdminRejected ==
  [][(last'.op \in {"text", "create", "list", "delete", "cleanup", "stop"}
      /\ last'.user # ADMIN_ID) =>
       /\ FirstReply(last') = Msg("UNAUTHORIZED")
       /\ Len(last'.replies) <= 2
       /\ link_messages' = link_messages
       /\ file' = file
       /\ running' = running]_vars

\* a non-admin was refused while the table held a record
C5_Witness ==
  /\ last.op = "delete" /\ last.user # ADMIN_ID
  /\ Sent(last, Msg("UNAUTHORIZED"))
  /\ link_messages # EmptyTable

\* C6 as stated: every table operation, delete included, leaves no record
\* that was older than the TTL when the operation began.
C6_Original ==
  (last.op \in {"create", "redeem", "list", "delete", "cleanup"} /\ Authorized(last)) =>
    ExpiredCodes(link_messages, last.t1) = {}

\* C6 amended: create, redeem, list and cleanup begin with the sweep: the
\* records older than the TTL at the handler's first clock reading are
\* removed before the table is read or changed (a redeem of such a code finds
\* nothing, list counts only the others, create adds to the others); delete
\* does not sweep: it removes the named record and nothing else.
C6_SweepFirst ==
  [][LET expired == ExpiredCodes(link_messages, now)
         swept   == Del(link_messages, expired)
     IN /\ (last'.op \in {"create", "redeem", "list", "cleanup"} /\ Authorized(last')) =>
             /\ last'.removed = expired
             /\ ExpiredCodes(link_messages', now) = {}
             /\ (last'.op = "redeem" /\ last'.code \in expired)
                  => FirstReply(last') = Msg("NOT_FOUND")
             /\ (last'.op \in {"redeem", "list", "cleanup"}) => link_messages' = swept
             /\ (last'.op = "list" /\ FirstReply(last').tag = "LIST")
                  => FirstReply(last') = ListMsg(swept)
             /\ (last'.op = "cleanup")
                  => FirstReply(last') = CleanupMsg(Cardinality(expired))
             /\ (last'.op = "create")
                  => DOMAIN link_messages' = DOMAIN swept \cup {last'.code}
        /\ (last'.op = "delete" /\ Authorized(last')) =>
             /\ last'.removed = {}
             /\ link_messages' = Del(link_messages, {last'.code})]_vars

\* a create swept an expired record before it stored the new one
C6_Witness ==
  /\ last.op = "create"
  /\ last.removed # {}
  /\ last.code \notin last.removed
  /\ last.removed \cap DOMAIN link_messages = {}

\* C7: a redeem that sends the stored text sends the text of the record as
\* it was, and leaves that record in the table unchanged, created_at
\* included; and every redeem, by any user, of a record whose age at the
\* lookup is within the TTL sends its text.
C7_RedeemKeepsRecord ==
  [][(last'.op = "redeem") =>
       /\ AttemptsText(last') =>
            /\ last'.code \in DOMAIN link_messages
            /\ FirstReply(last') = TextMsg(link_messages[last'.code].message)
            /\ last'.code \in DOMAIN link_messages'
            /\ link_messages'[last'.code] = link_messages[last'.code]
       /\ (/\ last'.code \in DOMAIN link_messages
           /\ IsDict(link_messages[last'.code])
           /\ now' - CreatedAt(link_messages[last'.code]) <= TTL)
          => FirstReply(last') = TextMsg(link_messages[last'.code].message)]_vars

\* a user other than the admin was sent the text of a record made earlier,
\* and the record is still there
C7_Witness ==
  /\ last.op = "redeem" /\ last.user # ADMIN_ID
  /\ last.code \in DOMAIN link_messages
  /\ IsDict(link_messages[last.code])
  /\ now - CreatedAt(link_messages[last.code]) = TTL
  /\ Sent(last, TextMsg(link_messages[last.code].message))

\* C8 as stated: a redeem that sends no text replies with the one generic
\* not-found message, whether the code is absent or its record past the TTL.
C8_Original ==
  (last.op = "redeem" /\ ~AttemptsText(last)) => FirstReply(last) = Msg("NOT_FOUND")

\* C9: when no write of the file failed in a handler run that changed the
\* table, the file holds the table afterwards; a sweep that removes records
\* writes once and a sweep that removes none does not write; create writes
\* once more and a delete that found its record writes once.
C9_WriteThrough ==
  [][(last'.op # "idle") =>
       /\ (last'.failed = 0 /\ link_messages' # link_messages) =>
            (file' = FileOk(link_messages') /\ load_data(file') = link_messages')
       /\ (last'.op \in {"create", "redeem", "list", "cleanup"} /\ Authorized(last')) =>
            /\ last'.swrites = (IF ExpiredCodes(link_messages, now) # {} THEN 1 ELSE 0)
            /\ last'.writes = last'.swrites + (IF last'.op = "create" THEN 1 ELSE 0)
       /\ (last'.op = "delete" /\ Authorized(last')) =>
            last'.writes = (IF last'.code \in DOMAIN link_messages THEN 1 ELSE 0)
       /\ (last'.writes = 0) => file' = file]_vars

\* a sweep removed two records with one write, onto a file that did not hold
\* the table before
C9_Witness ==
  /\ last.op = "cleanup" /\ last.user = ADMIN_ID
  /\ Cardinality(last.removed) = 2
  /\ last.swrites = 1 /\ last.failed = 0
  /\ writeFailures > 0
  /\ file = FileOk(link_messages)

\* C10: a handler run in which a write of the file failed still ends as a
\* success: create keeps the new record in the table, redeemable, and
\* replies with the link (or the bot-information error of a failed get_me);
\* delete keeps the record removed and replies that it is deleted; a sweep
\* keeps the expired records removed and its handler replies as usual.
C10_WriteFailureSwallowed ==
  (last.failed > 0) =>
    /\ (last.op = "create") =>
         /\ FirstReply(last) \in {LinkMsg(last.code), Msg("BOT_INFO_ERROR")}
         /\ last.code \in DOMAIN link_messages
         /\ link_messages[last.code].message = Strip(last.raw)
         /\ \A o \in SaveOutcomes :
              RedeemNow(last.code, o).out[1] = TextMsg(Strip(last.raw))
         /\ (last.removed \ {last.code}) \cap DOMAIN link_messages = {}
    /\ (last.op = "delete") =>
         /\ FirstReply(last) = DeletedMsg(last.code)
         /\ last.code \notin DOMAIN link_messages
    /\ (last.op = "cleanup") =>
         /\ FirstReply(last) = CleanupMsg(Cardinality(last.removed))
         /\ last.removed \cap DOMAIN link_messages = {}
    /\ (last.op = "redeem") =>
         /\ FirstReply(last).tag \in {"TEXT", "NOT_FOUND", "EXPIRED"}
         /\ last.removed \cap DOMAIN link_messages = {}
    /\ (last.op = "list") => last.removed \cap DOMAIN link_messages = {}

\* the write of a create failed, the admin was sent the link, and the file
\* does not hold the table
C10_Witness ==
  /\ last.op = "create" /\ last.failed > 0
  /\ Sent(last, LinkMsg(last.code))
  /\ last.code \in DOMAIN link_messages
  /\ file # FileOk(link_messages)

\* C11 as stated: a handler run in which a reply_text failed, or whose try
\* body raised, ends with exactly one error reply, sent, and no exception
\* leaves the handler.
C11_Original ==
  (last.op # "idle" /\ \E i \in 1..Len(last.replies) : ~last.replies[i].sent) =>
    /\ ~last.escaped
    /\ last.replies[Len(last.replies)].sent
    /\ last.replies[Len(last.replies)].msg.tag \in
         {"START_ERROR", "CREATE_ERROR", "LIST_ERROR", "DELETE_ERROR",
          "CLEANUP_ERROR"}

\* C14 as stated: a free text of the admin that stored a record is answered,
\* in the same run, with the link of that record's code.
C14_Original ==
  (last.op = "create" /\ last.code \in DOMAIN link_messages) =>
    Sent(last, LinkMsg(last.code))

\* C15 as stated: at the end of a redeem, create, list or cleanup no record
\* of the table is older than the TTL at the clock reading of that moment.
C15_Original ==
  (last.op \in {"redeem", "create", "list", "cleanup"} /\ Authorized(last)) =>
    \A c \in DOMAIN link_messages :
      IsDict(link_messages[c]) => now - CreatedAt(link_messages[c]) <= TTL

\* C15 amended: at the end of a redeem, create, list or cleanup no dict
\* record of the table is older than the TTL at the clock reading the sweep
\* of that run took, and the codes that sweep removed are gone (but for the
\* code a create stored again).
C15_FreshAtSweep ==
  (last.op \in {"redeem", "create", "list", "cleanup"} /\ Authorized(last)) =>
    /\ \A c \in DOMAIN link_messages :
         IsDict(link_messages[c]) => last.t1 - CreatedAt(link_messages[c]) <= TTL
    /\ \A c \in last.removed :
         c \in DOMAIN link_messages => (last.op = "create" /\ c = last.code)

\* a list swept one record and kept another
C15_Witness ==
  /\ last.op = "list" /\ last.user = ADMIN_ID
  /\ last.removed # {}
  /\ \E c \in DOMAIN link_messages : IsDict(link_messages[c])

\* C16 as stated: the code a create stores under is not in the table.
C16_Original ==
  [][(last'.op = "create") =>
       last'.code \notin DOMAIN Del(link_messages, ExpiredCodes(link_messages, now))]_vars

\* C16 amended: a create stores its record under the generated code without
\* looking the code up: every other record the sweep left stays as it was,
\* and a record the sweep left under the same code is overwritten, so that
\* a redeem of that code then delivers the new text.
C16_CreateOverwrites ==
  [][(last'.op = "create") =>
       LET swept == Del(link_messages, ExpiredCodes(link_messages, now))
       IN /\ DOMAIN link_messages' = DOMAIN swept \cup {last'.code}
          /\ \A c \in DOMAIN swept \ {last'.code} : link_messages'[c] = swept[c]
          /\ link_messages'[last'.code] = DictRecord(Strip(last'.raw), now')
          /\ last'.hit = (last'.code \in DOMAIN swept)]_vars

\* a create overwrote a record: a redeem now delivers the new text
C16_Witness ==
  /\ last.op = "create" /\ last.hit
  /\ Sent(last, LinkMsg(last.code))
  /\ RedeemNow(last.code, "ok").out[1] = TextMsg(Strip(last.raw))

\* C19 as stated: an old-format string record stays in the table unchanged
\* through every step but a delete of its code by the admin, and every
\* redeem of its code sends its text.
C19_Original ==
  [][\A c \in DOMAIN link_messages :
       IsStr(link_messages[c]) =>
         /\ \/ (c \in DOMAIN link_messages' /\ link_messages'[c] = link_messages[c])
            \/ (last'.op = "delete" /\ last'.user = ADMIN_ID /\ last'.code = c)
         /\ (last'.op = "redeem" /\ last'.code = c)
              => FirstReply(last') = TextMsg(link_messages[c].message)]_vars

\* C19 amended: an old-format string record stays in the table unchanged
\* through every step but a delete of its code by the admin or a create
\* whose generated code is its code, and every redeem of its code sends its
\* text, whatever the clock reads.
C19_LegacyNeverExpires ==
  [][\A c \in DOMAIN link_messages :
       IsStr(link_messages[c]) =>
         /\ \/ (c \in DOMAIN link_messages' /\ link_messages'[c] = link_messages[c])
            \/ (last'.op = "delete" /\ last'.user = ADMIN_ID /\ last'.code = c)
            \/ (last'.op = "create" /\ last'.code = c)
         /\ (last'.op = "redeem" /\ last'.code = c)
              => FirstReply(last') = TextMsg(link_messages[c].message)]_vars

\* an old-format record was redeemed at the end of the clock
C19_Witness ==
  /\ last.op = "redeem"
  /\ now = 2 * TTL
  /\ last.code \in DOMAIN link_messages
  /\ IsStr(link_messages[last.code])
  /\ Sent(last, TextMsg(link_messages[last.code].message))

----------------------------------------------------------------------------
(* Claims about the retraction of delivered messages *)

Deliveries == 1..MaxDeliveries

Delivered(k) == k <= Len(chat)

\* both messages of delivery k are gone from the chat
Retracted(k) == Delivered(k) /\ chat[k].main = "deleted" /\ chat[k].warning \notin {"shown", "delete_failed"}

NoDeletionFailed ==
  \A k \in 1..Len(chat) : "delete_failed" \notin {chat[k].main, chat[k].warning}

\* no message of a delivery is deleted before the TTL has passed since it
NotBeforeTTL ==
  \A k \in 1..Len(chat) :
     "deleted" \in {chat[k].main, chat[k].warning} => now >= chat[k].at + TTL

\* C12: every redeem that delivers the stored text is eventually followed by
\* the deletion of both the delivered message and its warning, and not before
\* the TTL has passed since the redeem, provided the process keeps running
\* and the deletions succeed.
C12_Original ==
  /\ []NotBeforeTTL
  /\ \A k \in Deliveries :
        ([]running /\ []NoDeletionFailed) => [](Delivered(k) => <>Retracted(k))

\* C13: a retraction, from its scheduling to its firing, whether its
\* deletions succeed or fail, never changes the link table or the persisted
\* file: whatever table operations ran before it, the table and the file
\* after a step of delete_messages equal those before it.
C13_RetractionLeavesTable ==
  [][tasks' # tasks /\ tasks' \subseteq tasks
       => link_messages' = link_messages /\ file' = file]_vars

\* a retraction has fired while the record it delivered was still in the table
C13_Witness ==
  /\ tasks = {}
  /\ \E k \in 1..Len(chat) :
        /\ chat[k].main \in {"deleted", "delete_failed"}
        /\ chat[k].code \in DOMAIN link_messages
        /\ file = FileOk(link_messages)

\* C17: a retraction that fires attempts the removal of both messages: when
\* the deletion of the delivered message fails, the deletion of the warning
\* message is attempted all the same.
C17_Original ==
  \A k \in 1..Len(chat) :
     chat[k].main = "delete_failed" => chat[k].warning \in {"deleted", "delete_failed"}

\* C18: whenever a redeem has sent the stored text to the chat, a retraction
\* of that message is scheduled, also when the send of the warning fails:
\* a delivered message still shown has a pending task.
C18_Original ==
  \A k \in 1..Len(chat) :
     chat[k].main = "shown" => \E task \in tasks : task.id = k

----------------------------------------------------------------------------
(* Claims about run_bot *)

\* C20: run_bot makes at most max_retries = 3 start attempts: an attempt
\* starts only at the while test with retry_count < 3, every attempt that
\* raises (Conflict, NetworkError or any other exception) adds exactly one
\* to retry_count, an attempt that completes ends the loop with retry_count
\* unchanged, and once retry_count is 3 or run_bot has ended no attempt
\* starts.
C20_RunBotBounded ==
  /\ [](attempts <= max_retries /\ retry_count <= max_retries)
  /\ [][/\ (attempts' # attempts =>
               attempts' = attempts + 1 /\ pc = "loop" /\ retry_count < max_retries)
         /\ (pc = "polling" /\ pc' \in {"loop", "raised"} =>
               retry_count' = retry_count + 1)
         /\ (pc = "polling" /\ pc' \notin {"loop", "raised"} =>
               retry_count' = retry_count /\ pc' \in {"polling", "returned"})
         /\ (pc \in {"returned", "raised"} => pc' = pc /\ attempts' = attempts)
         /\ (retry_count = max_retries => attempts' = attempts)]_vars

\* the third attempt has failed and the loop has ended
C20_Witness ==
  /\ retry_count = max_retries
  /\ attempts = max_retries
  /\ pc = "returned"
====
